---- MODULE Spec2Model ----
(***************************************************************************)
(* Model of script.js: the network-information cards (domestic provider    *)
(* cascade and three single-provider lookups joined by Promise.all), and   *)
(* the abuse-score helpers of the IP detail modal, and the click handlers  *)
(* of the IP elements and of the detail modal.                             *)
(*                                                                         *)
(* Texts are sequences of tokens, so that an empty text is << >> (falsy in *)
(* JavaScript) and markers such as the loading placeholder are one token.  *)
(***************************************************************************)
EXTENDS Integers, Sequences, FiniteSets, TLC

VARIABLES
  main,         \* position of loadNetworkInfo: "init", "waiting", "done"
  hasContainer, \* document.querySelector('.network-cards-container') exists
  hang,         \* the endpoint whose request never settles, or "none"
  pc,           \* per lookup: "idle", "fetch", "body", "done"
  idx,          \* fetchIpipData: index into apiConfigs of the current request
  respOk,       \* fetchIpipData: response.ok of the response whose body is being
                \* read (TRUE while no body is being read)
  ipText,       \* per card: textContent of the IP element
  ipError,      \* per card: the IP element holds a <span class="error">
  country,      \* per card: textContent of the country element
  city,         \* per card: textContent of the city element
  status,       \* per card: class of the status indicator
  title,        \* provider label in the title of the domestic card
  got,          \* history of the load in progress: the outcome delivered by each
                \* domestic provider
  reqCount,     \* history: number of requests issued per endpoint
  failRuns,     \* history: executions of the all-failed path of fetchIpipData
  clickable,    \* per card: the IP element has class "clickable"
  markCalls,    \* history: calls of markIpAsClickable
  spinners,     \* per IP element: number of .loading-spinner children
  reqs,         \* detail lookups in flight, in the order they were started
  issued,       \* history: number of detail lookups started
  modals,       \* the .ip-detail-modal elements of the body, in document order
  toast,        \* a .toast element exists
  copies,       \* navigator.clipboard.writeText promises not yet settled
  fnIn,         \* helper call under test: the arguments
  fnOut         \* helper call under test: the returned value (for
                \* showIpDetailModal, which appends to modals, undefined)

pageVars == <<main, hasContainer, hang, pc, idx, respOk, ipText, ipError, country, city,
              status, title, got, reqCount, failRuns, clickable, markCalls>>
clickVars == <<spinners, reqs, issued, modals, toast, copies>>
fnVars == <<fnIn, fnOut>>
vars == <<pageVars, clickVars, fnVars>>

----------------------------------------------------------------------------
(* Texts *)

Empty == << >>
\* The page's literals are Chinese; each is one ASCII token here.
Loading == <<"loading...">>      \* the placeholder the page starts with
Unknown == <<"unknown">>         \* the sentinel of an absent field
ErrorText == <<"load-failed">>   \* text of the error marker span
TitleInit == <<"domestic">>      \* title of the domestic card before a success
Undefined == <<"undefined">>

\* JavaScript truthiness of an optional string field (absent or '' is falsy).
Truthy(t) == t # Empty

\* x || y on optional strings.
OrElse(t, d) == IF Truthy(t) THEN t ELSE d

\* String.prototype.trim on a token sequence.
RECURSIVE TrimLeft(_)
TrimLeft(t) == IF t # Empty /\ Head(t) = " " THEN TrimLeft(Tail(t)) ELSE t

RECURSIVE TrimRight(_)
TrimRight(t) ==
  IF t # Empty /\ t[Len(t)] = " " THEN TrimRight(SubSeq(t, 1, Len(t) - 1)) ELSE t

Trim(t) == TrimRight(TrimLeft(t))

\* Values a provider may report.
IpA == <<"1", ".", "*", ".", "*">>
IpB == <<"2", ".", "2">>
CountryA == <<"CN">>
RegionA == <<"SH">>
CityA == <<"Pudong">>

----------------------------------------------------------------------------
(* Lookups, endpoints and the domestic provider list *)

Lookups == {"ipip", "edgeone", "cf", "twitter"}

NumProviders == 3
Providers == 1..NumProviders

ProviderName(i) ==
  CASE i = 1 -> <<"speedtest.cn">>
    [] i = 2 -> <<"ipipv.com">>
    [] i = 3 -> <<"ipip.net">>

ProviderEndpoint(i) ==
  CASE i = 1 -> "speedtest.cn"
    [] i = 2 -> "ipipv.com"
    [] i = 3 -> "ipip.net"

Endpoints == {ProviderEndpoint(i) : i \in Providers} \cup {"edgeone", "cf", "twitter"}

\* The endpoint a lookup is currently requesting.
CurrentEndpoint(l) == IF l = "ipip" THEN ProviderEndpoint(idx) ELSE l

----------------------------------------------------------------------------
(* Response bodies.  A body is what response.json() yields: a parse failure *)
(* ("badjson"), JSON null, or an object whose optional members are Empty    *)
(* when absent.                                                             *)

Payload(ip, c, ci) == [ip |-> ip, country |-> c, city |-> ci]
FullPayload == Payload(IpA, CountryA, CityA)
PartPayload == Payload(Empty, CountryA, Empty)
NoPayload == Payload(Empty, Empty, Empty)

\* speedtest.cn: { code, data: { ip, country, city } }
SpeedBody(kind, code, hasData, p) ==
  [kind |-> kind, code |-> code, hasData |-> hasData, data |-> p]
SpeedBodies ==
  { SpeedBody("badjson", 0, FALSE, NoPayload),
    SpeedBody("null", 0, FALSE, NoPayload),
    SpeedBody("object", 0, TRUE, FullPayload),
    SpeedBody("object", 0, TRUE, PartPayload),
    SpeedBody("object", 0, FALSE, NoPayload),
    SpeedBody("object", 1, TRUE, FullPayload) }

\* ipipv.com: { Ip, Country, City }
IpipvBody(kind, p) == [kind |-> kind, data |-> p]
IpipvBodies ==
  { IpipvBody("badjson", NoPayload),
    IpipvBody("null", NoPayload),
    IpipvBody("object", Payload(IpB, CountryA, CityA)),
    IpipvBody("object", NoPayload) }

\* ipip.net: { ret, data: { ip, location: [country, region, city, ...] } }
NetBody(kind, ret, hasData, ip, hasLoc, loc) ==
  [kind |-> kind, ret |-> ret, hasData |-> hasData, ip |-> ip,
   hasLocation |-> hasLoc, location |-> loc]
NetBodies ==
  { NetBody("badjson", "", FALSE, Empty, FALSE, << >>),
    NetBody("null", "", FALSE, Empty, FALSE, << >>),
    NetBody("object", "ok", TRUE, IpA, TRUE, <<CountryA, RegionA, CityA>>),
    NetBody("object", "ok", TRUE, Empty, TRUE, << >>),
    NetBody("object", "ok", TRUE, IpA, FALSE, << >>),
    NetBody("object", "ok", FALSE, Empty, FALSE, << >>),
    NetBody("object", "fail", TRUE, IpA, TRUE, <<CountryA, RegionA, CityA>>) }

ProviderBodies(i) ==
  CASE i = 1 -> SpeedBodies
    [] i = 2 -> IpipvBodies
    [] i = 3 -> NetBodies

\* Result of a parser: it throws, or it returns a NormalizedResult.
Thrown == [threw |-> TRUE, ip |-> Empty, country |-> Empty, city |-> Empty]
Parsed(ip, c, ci) == [threw |-> FALSE, ip |-> ip, country |-> c, city |-> ci]

\* array[k] || Unknown (k is the JavaScript index).
ElemOrUnknown(arr, k) == IF k + 1 <= Len(arr) THEN OrElse(arr[k + 1], Unknown) ELSE Unknown

SpeedParser(b) ==
  IF b.kind = "null" THEN Thrown                     \* data.code of null: TypeError
  ELSE IF b.code = 0 /\ b.hasData
    THEN Parsed(OrElse(b.data.ip, Unknown), OrElse(b.data.country, Unknown),
                OrElse(b.data.city, Unknown))
    ELSE Thrown

IpipvParser(b) ==
  IF b.kind = "null" THEN Thrown                     \* data.Ip of null: TypeError
  ELSE Parsed(OrElse(b.data.ip, Unknown), OrElse(b.data.country, Unknown),
              OrElse(b.data.city, Unknown))

NetParser(b) ==
  IF b.kind = "null" THEN Thrown
  ELSE IF b.ret = "ok" /\ b.hasData
    THEN IF ~b.hasLocation THEN Thrown               \* location[0] of undefined
         ELSE Parsed(OrElse(b.ip, Unknown), ElemOrUnknown(b.location, 0),
                     ElemOrUnknown(b.location, 2))
    ELSE Thrown

Parser(i, b) ==
  CASE i = 1 -> SpeedParser(b)
    [] i = 2 -> IpipvParser(b)
    [] i = 3 -> NetParser(b)

----------------------------------------------------------------------------
(* Outcome history of the domestic providers *)

\* kind: "none" (not answered), "neterr" (fetch rejected), "badjson"
\* (response.json() rejected), "threw" (the parser threw), "parsed" (the parser
\* returned); ok is response.ok of a response the parser accepted (for a
\* failed attempt the catch block is the same whatever the status was, and the
\* history keeps the kind only); body is the JSON value that parsed.
NullBody(i) == CHOOSE b \in ProviderBodies(i) : b.kind = "null"
Outcome(i, kind, ok) == [kind |-> kind, ok |-> ok, body |-> NullBody(i)]
NoOutcome(i) == Outcome(i, "none", TRUE)
NetErr(i) == Outcome(i, "neterr", TRUE)
BodyOutcome(i, ok, b) ==
  IF b.kind = "badjson" THEN Outcome(i, "badjson", TRUE)
  ELSE IF Parser(i, b).threw THEN Outcome(i, "threw", TRUE)
  ELSE [kind |-> "parsed", ok |-> ok, body |-> b]

----------------------------------------------------------------------------
(* Bodies of the single-provider lookups *)

\* api.ipapi.cmliussss.net: { ip, location: { country_code }, asn: { asn, org } }
\* A member of asn is a text ('' included) or Absent (the object lacks it).
Absent == <<"absent">>
EdgeBody(kind, ip, hasLoc, cc, hasAsn, asn, org) ==
  [kind |-> kind, ip |-> ip, hasLocation |-> hasLoc, country_code |-> cc,
   hasAsn |-> hasAsn, asn |-> asn, org |-> org]
EdgeBodies ==
  { EdgeBody("badjson", Empty, FALSE, Empty, FALSE, Empty, Empty),
    EdgeBody("null", Empty, FALSE, Empty, FALSE, Empty, Empty),
    EdgeBody("object", IpA, TRUE, CountryA, TRUE, <<"13335">>, <<"Org">>),
    EdgeBody("object", Empty, TRUE, Empty, TRUE, Absent, Empty),
    EdgeBody("object", IpA, FALSE, Empty, TRUE, <<"13335">>, <<"Org">>),
    EdgeBody("object", IpA, TRUE, CountryA, FALSE, Empty, Empty) }

\* cf.090227.xyz/ip.json: { ip, country, org }
CfBody(kind, ip, c, org) == [kind |-> kind, ip |-> ip, country |-> c, org |-> org]
CfBodies ==
  { CfBody("badjson", Empty, Empty, Empty),
    CfBody("null", Empty, Empty, Empty),
    CfBody("object", IpB, CountryA, <<"Org">>),
    CfBody("object", Empty, Empty, Empty) }

\* x.com/cdn-cgi/trace: text; a text is its lines, a line its parts between '='.
TraceLine(k, v) == <<k, v>>
TraceTexts ==
  { << TraceLine(<<"ip">>, IpA \o <<" ">>), TraceLine(<<"loc">>, CountryA),
       TraceLine(<<"colo">>, <<"SJC">>), <<Empty>> >>,
    << TraceLine(<<"ip">>, IpA), TraceLine(<<"ip">>, IpB), <<<<"h">>>> >>,
    << TraceLine(<<"loc">>, CountryA), TraceLine(<<"ip">>, <<" ">>) >>,
    << <<Empty>> >> }

TraceKeys == {<<"ip">>, <<"loc">>, <<"colo">>}
NoTraceData == [k \in TraceKeys |-> Empty]

\* The forEach of fetchTwitterData: data[key.trim()] = value.trim() for each
\* line whose first two parts are both non-empty.
RECURSIVE ParseTrace(_, _)
ParseTrace(lines, data) ==
  IF lines = << >> THEN data
  ELSE LET line == Head(lines)
           key == line[1]
           value == IF Len(line) >= 2 THEN line[2] ELSE Empty
           next == IF Truthy(key) /\ Truthy(value) /\ Trim(key) \in TraceKeys
                     THEN [data EXCEPT ![Trim(key)] = Trim(value)]
                     ELSE data
       IN ParseTrace(Tail(lines), next)

\* What the try block of a single-provider lookup did before it returned or
\* threw: the three fields as it left them (Loading where it wrote nothing).
TryResult(threw, ip, c, ci) == [threw |-> threw, ip |-> ip, country |-> c, city |-> ci]

\* ${x} in a template literal: an absent member prints as "undefined", the
\* empty string prints nothing.
Interpolate(x) == IF x = Absent THEN Undefined ELSE x

\* `AS${data.asn.asn} ${data.asn.org}`
AsnText(asn, org) == <<"AS">> \o Interpolate(asn) \o <<" ">> \o Interpolate(org)

EdgeOneTry(b, cur) ==
  IF b.kind \in {"badjson", "null"} THEN TryResult(TRUE, cur.ip, cur.country, cur.city)
  ELSE LET ip == OrElse(b.ip, Unknown) IN
    IF ~b.hasLocation THEN TryResult(TRUE, ip, cur.country, cur.city)
    ELSE LET c == OrElse(b.country_code, Unknown) IN
      IF ~b.hasAsn THEN TryResult(TRUE, ip, c, cur.city)
      ELSE TryResult(FALSE, ip, c, OrElse(AsnText(b.asn, b.org), Unknown))

CloudFlareTry(b, cur) ==
  IF b.kind \in {"badjson", "null"} THEN TryResult(TRUE, cur.ip, cur.country, cur.city)
  ELSE TryResult(FALSE, OrElse(b.ip, Unknown), OrElse(b.country, Unknown),
                 OrElse(b.org, Unknown))

TwitterTry(text) ==
  LET data == ParseTrace(text, NoTraceData)
  IN TryResult(FALSE, OrElse(data[<<"ip">>], Unknown), OrElse(data[<<"loc">>], Unknown),
               OrElse(data[<<"colo">>], Empty))

----------------------------------------------------------------------------
(* State updates shared by the handlers *)

\* setStatus(id, status)
setStatus(l, s) == status' = [status EXCEPT ![l] = s]

\* textContent assignments of the three fields of a card.
WriteFields(l, ip, c, ci) ==
  /\ ipText' = [ipText EXCEPT ![l] = ip]
  /\ ipError' = [ipError EXCEPT ![l] = FALSE]
  /\ country' = [country EXCEPT ![l] = c]
  /\ city' = [city EXCEPT ![l] = ci]

\* The error rendering: the marker span in the IP field, the others cleared.
WriteError(l) ==
  /\ ipText' = [ipText EXCEPT ![l] = ErrorText]
  /\ ipError' = [ipError EXCEPT ![l] = TRUE]
  /\ country' = [country EXCEPT ![l] = Empty]
  /\ city' = [city EXCEPT ![l] = Empty]

\* The fields of a card as the DOM holds them now.
CurFields(l) == [ip |-> ipText[l], country |-> country[l], city |-> city[l]]

\* Order of the array given to Promise.all.
LookupOrder == <<"ipip", "edgeone", "cf", "twitter">>

\* Variant: the four lookups awaited one after another instead of together.
CanRunInOrder(l) ==
  /\ pc[l] = "fetch"
  /\ CurrentEndpoint(l) # hang
  /\ \A j, k \in 1..Len(LookupOrder) :
       (LookupOrder[k] = l /\ j < k) => pc[LookupOrder[j]] = "done"

\* An awaited fetch of lookup l can settle unless its endpoint hangs; the four
\* lookups were started together, so none waits for another.
CanRun(l) == pc[l] = "fetch" /\ CurrentEndpoint(l) # hang

----------------------------------------------------------------------------
(* fetchIpipData *)

\* One loop iteration up to its first await: the request to provider i.
IpipRequest(i) ==
  /\ idx' = i
  /\ reqCount' = [reqCount EXCEPT ![ProviderEndpoint(i)] = @ + 1]
  /\ pc' = [pc EXCEPT !["ipip"] = "fetch"]

\* A failed attempt on provider i: the catch, then the next iteration, or the
\* code after the loop when the list is exhausted.
IpipFailed(i) ==
  IF i < NumProviders
    THEN /\ IpipRequest(i + 1)
         /\ UNCHANGED <<ipText, ipError, country, city, status, title, failRuns>>
    ELSE /\ WriteError("ipip")
         /\ setStatus("ipip", "error")
         /\ failRuns' = failRuns + 1
         /\ pc' = [pc EXCEPT !["ipip"] = "done"]
         /\ UNCHANGED <<idx, reqCount, title>>

\* Variant: the success branch without its return, so the loop goes on.
IpipRenderNoReturn(i, r) ==
  /\ WriteFields("ipip", r.ip, r.country, r.city)
  /\ setStatus("ipip", "success")
  /\ title' = ProviderName(i)
  /\ IF i < NumProviders
       THEN IpipRequest(i + 1)
       ELSE pc' = [pc EXCEPT !["ipip"] = "done"] /\ UNCHANGED <<idx, reqCount>>
  /\ UNCHANGED failRuns

\* A successful attempt on provider i with parsed result r: render and return.
IpipRender(i, r) ==
  /\ WriteFields("ipip", r.ip, r.country, r.city)
  /\ setStatus("ipip", "success")
  /\ title' = ProviderName(i)
  /\ pc' = [pc EXCEPT !["ipip"] = "done"]
  /\ UNCHANGED <<idx, reqCount, failRuns>>

\* await fetch(url) settles.
IpipFetchSettled ==
  /\ CanRun("ipip")
  /\ \/ /\ got' = [got EXCEPT ![idx] = NetErr(idx)]
        /\ IpipFailed(idx)
        /\ UNCHANGED respOk
     \/ \E ok \in BOOLEAN :
          /\ respOk' = ok
          /\ pc' = [pc EXCEPT !["ipip"] = "body"]
          /\ UNCHANGED <<idx, ipText, ipError, country, city, status, title, got,
                         reqCount, failRuns>>
  /\ UNCHANGED <<main, hasContainer, hang, clickable, markCalls, clickVars, fnVars>>

\* await response.json() settles; then the parser and the rest of the iteration.
IpipJsonSettled ==
  /\ pc["ipip"] = "body"
  /\ \E b \in ProviderBodies(idx) :
       /\ got' = [got EXCEPT ![idx] = BodyOutcome(idx, respOk, b)]
       /\ IF b.kind = "badjson" THEN IpipFailed(idx)
          ELSE LET r == Parser(idx, b)
               IN IF r.threw THEN IpipFailed(idx) ELSE IpipRender(idx, r)
  /\ respOk' = TRUE
  /\ UNCHANGED <<main, hasContainer, hang, clickable, markCalls, clickVars, fnVars>>

----------------------------------------------------------------------------
(* fetchEdgeOneData, fetchCloudFlareData, fetchTwitterData *)

\* Variant: a catch block that sets the status but leaves the fields as the
\* try block wrote them.
SingleFinishKeepPartial(l, t) ==
  /\ WriteFields(l, t.ip, t.country, t.city)
  /\ setStatus(l, IF t.threw THEN "error" ELSE "success")
  /\ pc' = [pc EXCEPT ![l] = "done"]

\* Variant: fetchCloudFlareData writing the fields of the EdgeOne card.
SingleFinishOtherCard(l, t) ==
  /\ LET card == IF l = "cf" THEN "edgeone" ELSE l IN
       IF t.threw
         THEN WriteError(card) /\ setStatus(l, "error")
         ELSE WriteFields(card, t.ip, t.country, t.city) /\ setStatus(l, "success")
  /\ pc' = [pc EXCEPT ![l] = "done"]

\* End of a single-provider lookup: the try block ran to its end, or the
\* catch block replaced whatever it had written.
SingleFinish(l, t) ==
  /\ IF t.threw
       THEN WriteError(l) /\ setStatus(l, "error")
       ELSE WriteFields(l, t.ip, t.country, t.city) /\ setStatus(l, "success")
  /\ pc' = [pc EXCEPT ![l] = "done"]

\* await fetch(...) of a single-provider lookup settles.
SingleFetchSettled(l) ==
  /\ CanRun(l)
  /\ \/ SingleFinish(l, TryResult(TRUE, ipText[l], country[l], city[l]))
     \/ /\ pc' = [pc EXCEPT ![l] = "body"]
        /\ UNCHANGED <<ipText, ipError, country, city, status>>
  /\ UNCHANGED <<main, hasContainer, hang, idx, respOk, title, got, reqCount,
                 failRuns, clickable, markCalls, clickVars, fnVars>>

EdgeOneFetchSettled == SingleFetchSettled("edgeone")
CloudFlareFetchSettled == SingleFetchSettled("cf")
TwitterFetchSettled == SingleFetchSettled("twitter")

SingleFrame ==
  UNCHANGED <<main, hasContainer, hang, idx, respOk, title, got, reqCount, failRuns,
              clickable, markCalls, clickVars, fnVars>>

\* await response.json() of fetchEdgeOneData settles.
EdgeOneJsonSettled ==
  /\ pc["edgeone"] = "body"
  /\ \E b \in EdgeBodies : SingleFinish("edgeone", EdgeOneTry(b, CurFields("edgeone")))
  /\ SingleFrame

\* await response.json() of fetchCloudFlareData settles.
CloudFlareJsonSettled ==
  /\ pc["cf"] = "body"
  /\ \E b \in CfBodies : SingleFinish("cf", CloudFlareTry(b, CurFields("cf")))
  /\ SingleFrame

\* await response.text() of fetchTwitterData settles (it rejects, or yields a text).
TwitterTextSettled ==
  /\ pc["twitter"] = "body"
  /\ \/ SingleFinish("twitter",
                     TryResult(TRUE, ipText["twitter"], country["twitter"], city["twitter"]))
     \/ \E text \in TraceTexts : SingleFinish("twitter", TwitterTry(text))
  /\ SingleFrame

----------------------------------------------------------------------------
(* loadNetworkInfo and markIpAsClickable *)

\* Variant: Promise.race/any semantics, the join proceeds on the first one.
AnySettled == \E l \in Lookups : pc[l] = "done"

\* Promise.all([...]) resolves once every one of the four promises has.
AllSettled == \A l \in Lookups : pc[l] = "done"

\* Variant: the skip condition without the test for the error marker.
SkipsUnlessError(text, error, marked) ==
  \/ Trim(text) = Loading
  \/ Trim(text) = Unknown
  \/ marked

\* The skip condition of markIpAsClickable for an element with the given
\* text, error marker and clickable class.
Skips(text, error, marked) ==
  \/ error
  \/ Trim(text) = Loading
  \/ Trim(text) = Unknown
  \/ marked

\* An element markIpAsClickable skips.
Skipped(l) == Skips(ipText[l], ipError[l], clickable[l])

markIpAsClickable ==
  /\ clickable' = [l \in Lookups |-> clickable[l] \/ ~Skipped(l)]
  /\ markCalls' = markCalls + 1

\* The synchronous part of loadNetworkInfo: with the container present, each
\* of the four async functions runs up to its first await.
LoadNetworkInfo ==
  /\ main = "init"
  /\ IF hasContainer
       THEN /\ status' = [l \in Lookups |-> "loading"]
            /\ pc' = [l \in Lookups |-> "fetch"]
            /\ idx' = 1
            /\ reqCount' = [e \in Endpoints |->
                              IF e \in {ProviderEndpoint(1), "edgeone", "cf", "twitter"}
                                THEN reqCount[e] + 1 ELSE reqCount[e]]
            /\ main' = "waiting"
       ELSE /\ main' = "done"
            /\ UNCHANGED <<status, pc, idx, reqCount>>
  /\ UNCHANGED <<hasContainer, hang, respOk, ipText, ipError, country, city, title,
                 got, failRuns, clickable, markCalls, clickVars, fnVars>>

\* The continuation of loadNetworkInfo after await Promise.all(...).  The
\* load is over: the history of the provider outcomes ends with it.
Join ==
  /\ main = "waiting"
  /\ AllSettled
  /\ markIpAsClickable
  /\ main' = "done"
  /\ got' = [i \in Providers |-> NoOutcome(i)]
  /\ UNCHANGED <<hasContainer, hang, pc, idx, respOk, ipText, ipError, country, city,
                 status, title, reqCount, failRuns, clickVars, fnVars>>

----------------------------------------------------------------------------
(* The page *)

NoCall == [f |-> "none"]
NoResult == [kind |-> "none"]

PageInit ==
  /\ main = "init"
  /\ hasContainer \in BOOLEAN
  /\ hang \in Endpoints \cup {"none"}
  /\ pc = [l \in Lookups |-> "idle"]
  /\ idx = 0
  /\ respOk = TRUE
  /\ ipText = [l \in Lookups |-> Loading]
  /\ ipError = [l \in Lookups |-> FALSE]
  /\ country = [l \in Lookups |-> Loading]
  /\ city = [l \in Lookups |-> Loading]
  /\ status = [l \in Lookups |-> "none"]
  /\ title = TitleInit
  /\ got = [i \in Providers |-> NoOutcome(i)]
  /\ reqCount = [e \in Endpoints |-> 0]
  /\ failRuns = 0
  /\ clickable = [l \in Lookups |-> FALSE]
  /\ markCalls = 0
  /\ spinners = [l \in Lookups |-> 0]
  /\ reqs = << >>
  /\ issued = 0
  /\ modals = << >>
  /\ toast = FALSE
  /\ copies = 0

----------------------------------------------------------------------------
(* Copy buttons and the toast *)

MaxCopies == 1        \* clipboard writes in flight at a time

\* initApp calls initEventListeners after loadNetworkInfo has run up to its
\* await (or has returned): from then on the body's click listener and the
\* document's keydown listener are registered.
Listening == main # "init"

\* showToast(message): an existing toast is removed, then one is appended.
showToast == toast' = TRUE

\* fallbackCopy(text): execCommand('copy') returns or throws, and either way
\* a toast is shown (with the text copied, or with the failure message).
fallbackCopy == showToast

\* The dataset.domain of the .copy-domain buttons: none, or a domain.
CopyDomains == {Empty, <<"*", ".", "example">>}

\* A click inside a .copy-domain button: the body's click listener calls
\* copyDomain for a non-empty data-domain and returns.  With
\* navigator.clipboard.writeText the write is started; without it
\* fallbackCopy runs at once.
CopyDomainClick ==
  /\ Listening
  /\ \E domain \in CopyDomains, hasClipboard \in BOOLEAN :
       IF ~Truthy(domain) THEN UNCHANGED <<toast, copies>>
       ELSE IF hasClipboard
         THEN copies < MaxCopies /\ copies' = copies + 1 /\ UNCHANGED toast
         ELSE fallbackCopy /\ UNCHANGED copies
  /\ UNCHANGED <<pageVars, spinners, reqs, issued, modals, fnVars>>

\* A clipboard write settles: resolved, the then-callback shows the toast;
\* rejected, the catch-callback calls fallbackCopy.
ClipboardWriteSettled ==
  /\ copies > 0
  /\ copies' = copies - 1
  /\ \E resolved \in BOOLEAN : IF resolved THEN showToast ELSE fallbackCopy
  /\ UNCHANGED <<pageVars, spinners, reqs, issued, modals, fnVars>>

\* The timers of showToast remove the toast.
ToastExpire ==
  /\ toast
  /\ toast' = FALSE
  /\ UNCHANGED <<pageVars, spinners, reqs, issued, modals, copies, fnVars>>

Init == PageInit /\ fnIn = NoCall /\ fnOut = NoResult

Next ==
  \/ LoadNetworkInfo
  \/ IpipFetchSettled
  \/ IpipJsonSettled
  \/ EdgeOneFetchSettled
  \/ EdgeOneJsonSettled
  \/ CloudFlareFetchSettled
  \/ CloudFlareJsonSettled
  \/ TwitterFetchSettled
  \/ TwitterTextSettled
  \/ Join
  \/ CopyDomainClick
  \/ ClipboardWriteSettled
  \/ ToastExpire

\* The page load, with the user's clicks on the copy buttons.
Spec == Init /\ [][Next]_vars

\* The event loop runs every continuation whose promise has settled, and a
\* request that does not hang settles.
Fairness ==
  /\ WF_vars(LoadNetworkInfo)
  /\ WF_vars(IpipFetchSettled)
  /\ WF_vars(IpipJsonSettled)
  /\ WF_vars(EdgeOneFetchSettled)
  /\ WF_vars(EdgeOneJsonSettled)
  /\ WF_vars(CloudFlareFetchSettled)
  /\ WF_vars(CloudFlareJsonSettled)
  /\ WF_vars(TwitterFetchSettled)
  /\ WF_vars(TwitterTextSettled)
  /\ WF_vars(Join)

FairSpec == Init /\ [][Next]_vars /\ Fairness

----------------------------------------------------------------------------
(* JavaScript values of the abuse-score helpers.  A decimal of the inputs   *)
(* and of the source text is written in fixed point: the integer v stands  *)
(* for v / Unit, so 0.0001 is 2 and 0.15 is 3000.  What the helpers compute *)
(* with is the binary64 double of such a decimal.                           *)

Unit == 2 * 10000
Dec(n, d) == (n * Unit) \div d          \* the decimal n/d

Undef == [t |-> "undefined", v |-> 0]
Null == [t |-> "null", v |-> 0]
UnknownStr == [t |-> "unknown", v |-> 0]   \* the string Unknown
NaN == [t |-> "NaN", v |-> 0]
NonNumeric == [t |-> "string", v |-> 0]    \* a string without a leading number
TypeError == [t |-> "TypeError", v |-> 0]  \* the call raised
Num(v) == [t |-> "number", v |-> v]         \* the number literal v / Unit
NumStr(v) == [t |-> "numstr", v |-> v]      \* a string starting with v / Unit

(* Natural numbers of any size: the sequence of base-2^15 digits, lowest    *)
(* first, without leading zero digits (zero is << >>).                      *)

Base == 2 ^ 15

RECURSIVE BigNorm(_)
BigNorm(a) ==
  IF a # << >> /\ a[Len(a)] = 0 THEN BigNorm(SubSeq(a, 1, Len(a) - 1)) ELSE a

RECURSIVE BigFromInt(_)
BigFromInt(x) == IF x = 0 THEN << >> ELSE <<x % Base>> \o BigFromInt(x \div Base)

Digit(a, i) == IF i <= Len(a) THEN a[i] ELSE 0

RECURSIVE BigAddFrom(_, _, _, _)
BigAddFrom(a, b, i, carry) ==
  IF i > Len(a) /\ i > Len(b) THEN (IF carry = 0 THEN << >> ELSE <<carry>>)
  ELSE LET sum == Digit(a, i) + Digit(b, i) + carry
       IN <<sum % Base>> \o BigAddFrom(a, b, i + 1, sum \div Base)

BigAdd(a, b) == BigAddFrom(a, b, 1, 0)

RECURSIVE BigMulFrom(_, _, _, _)
BigMulFrom(a, k, i, carry) ==
  IF i > Len(a) THEN (IF carry = 0 THEN << >> ELSE <<carry>>)
  ELSE LET prod == a[i] * k + carry
       IN <<prod % Base>> \o BigMulFrom(a, k, i + 1, prod \div Base)

\* a * k for 0 <= k < Base
BigMulSmall(a, k) == BigNorm(BigMulFrom(a, k, 1, 0))

\* a * Base^j
BigShiftDigits(a, j) == IF a = << >> THEN << >> ELSE [i \in 1..j |-> 0] \o a

\* Quotient and remainder of a by d, for 0 < d < 2 * Base.
BigDivSmall(a, d) ==
  LET rem[i \in 1..(Len(a) + 1)] ==
        IF i = Len(a) + 1 THEN 0 ELSE (rem[i + 1] * Base + a[i]) % d
  IN [q |-> BigNorm([i \in 1..Len(a) |-> (rem[i + 1] * Base + a[i]) \div d]),
      r |-> rem[1]]

RECURSIVE BigLessAt(_, _, _)
BigLessAt(a, b, i) ==
  IF i = 0 THEN FALSE
  ELSE IF a[i] # b[i] THEN a[i] < b[i]
  ELSE BigLessAt(a, b, i - 1)

BigLess(a, b) == IF Len(a) # Len(b) THEN Len(a) < Len(b) ELSE BigLessAt(a, b, Len(a))

\* Number of binary digits of a.
BitLen(a) ==
  IF a = << >> THEN 0
  ELSE 15 * (Len(a) - 1)
       + (CHOOSE k \in 1..15 : 2 ^ (k - 1) <= a[Len(a)] /\ a[Len(a)] < 2 ^ k)

(* IEEE 754 binary64 values that are not negative: the value of             *)
(* [t |-> "double", n |-> a] is a * 2^-FracBits.  Every double the helpers  *)
(* meet (from 2^-30 up to 2^20) is such a multiple with at most 53          *)
(* significant binary digits.                                               *)

FracDigits == 6
FracBits == 15 * FracDigits
Significand == 53         \* binary digits of a binary64 significand

DoubleOf(a) == [t |-> "double", n |-> a]

\* a, rounded to the nearest value of at most 53 significant binary digits,
\* ties to even; sticky tells that digits below those of a were cut off.
RoundToDouble(a, sticky) ==
  LET len == BitLen(a) IN
  IF len <= Significand THEN a
  ELSE LET drop == len - Significand
           BitAt(i) == (a[(i \div 15) + 1] \div (2 ^ (i % 15))) % 2
           Below(i) == \/ \E j \in 1..(i \div 15) : a[j] # 0
                       \/ a[(i \div 15) + 1] % (2 ^ (i % 15)) # 0
           at == (drop \div 15) + 1
           unit == 2 ^ (drop % 15)
           kept == [j \in 1..Len(a) |->
                      IF j < at THEN 0
                      ELSE IF j = at THEN (a[j] \div unit) * unit
                      ELSE a[j]]
           up == BitAt(drop - 1) = 1
                 /\ (Below(drop - 1) \/ sticky \/ BitAt(drop) = 1)
       IN IF up THEN BigAdd(kept, BigShiftDigits(<<unit>>, at - 1)) ELSE kept

\* The double nearest to the decimal num / den (a number literal), den < 2 * Base.
Double(num, den) ==
  LET d == BigDivSmall(BigShiftDigits(BigFromInt(num), FracDigits), den)
  IN DoubleOf(RoundToDouble(d.q, d.r # 0))

Zero == DoubleOf(<< >>)

\* The double of a number value.
ToDouble(x) == IF x.t = "double" THEN x ELSE Double(x.v, Unit)

\* x + y, x / 2 and x * k (k a small integer) on doubles.
DAdd(x, y) == DoubleOf(RoundToDouble(BigAdd(x.n, y.n), FALSE))
DHalf(x) == DoubleOf(BigDivSmall(x.n, 2).q)
DMul(x, k) == DoubleOf(RoundToDouble(BigMulSmall(x.n, k), FALSE))

IsNumber(x) == x.t \in {"number", "double"}

\* !x
Falsy(x) ==
  \/ x.t \in {"undefined", "null", "NaN"}
  \/ (x.t = "number" /\ x.v = 0)
  \/ x = Zero

\* parseFloat(x): a string without a leading number gives NaN.
parseFloat(x) ==
  IF x.t = "number" \/ x.t = "numstr" THEN Double(x.v, Unit)
  ELSE IF x.t = "double" THEN x
  ELSE NaN

\* n < m, n <= m and n >= m on numbers; every comparison with NaN is false.
Less(n, m) == IsNumber(n) /\ IsNumber(m) /\ BigLess(ToDouble(n).n, ToDouble(m).n)
AtLeast(n, m) == IsNumber(n) /\ IsNumber(m) /\ ~BigLess(ToDouble(n).n, ToDouble(m).n)

FlagNames == <<"is_crawler", "is_proxy", "is_vpn", "is_tor", "is_abuser", "is_bogon">>
FlagValues == {"true", "false", "undefined"}
FlagSet == {FlagNames[k] : k \in 1..Len(FlagNames)}

\* The flags argument: an object (a value per flag, "undefined" for a missing
\* one; the empty object misses all six) or left out of the call.
EmptyObject == [n \in FlagSet |-> "undefined"]
NoArgument == [n \in FlagSet |-> "no-object"]

\* Variant: the parameter without its default value.
securityFlagsNoDefault(arg) == arg

\* securityFlags = {}
securityFlagsDefault(arg) == IF arg = NoArgument THEN EmptyObject ELSE arg

\* riskCount * 0.15
RiskPerFlag == Dec(15, 100)

\* Variant: null as soon as either part is zero.
NoSignalEither(baseScore, riskAddition) == baseScore = Zero \/ riskAddition = Zero

\* baseScore === 0 && riskAddition === 0
NoSignal(baseScore, riskAddition) == baseScore = Zero /\ riskAddition = Zero

calculateAbuseScore(companyScore, asnScore, securityFlagsArg) ==
  LET securityFlags == securityFlagsDefault(securityFlagsArg)
      cs == IF Falsy(companyScore) \/ companyScore = UnknownStr THEN Num(0)
            ELSE companyScore
      as == IF Falsy(asnScore) \/ asnScore = UnknownStr THEN Num(0) ELSE asnScore
      company == IF Falsy(parseFloat(cs)) THEN Zero ELSE parseFloat(cs)
      asn == IF Falsy(parseFloat(as)) THEN Zero ELSE parseFloat(as)
      baseScore == DMul(DHalf(DAdd(company, asn)), 5)
      riskFlags == [k \in 1..Len(FlagNames) |-> securityFlags[FlagNames[k]]]
      IsTrue(flag) == flag = "true"
      riskCount == Len(SelectSeq(riskFlags, IsTrue))
      riskAddition == DMul(Double(RiskPerFlag, Unit), riskCount)
      finalScore == DAdd(baseScore, riskAddition)
  IN IF securityFlags = NoArgument THEN TypeError   \* a property of undefined
     ELSE IF NoSignal(baseScore, riskAddition) THEN Null ELSE finalScore

\* Variant: the 15% lower bound of the orange band that the comment names.
getAbuseScoreBadgeClassFifteen(percentage) ==
  IF percentage.t \in {"null", "undefined"} THEN "badge-info"
  ELSE IF AtLeast(percentage, Num(100 * Unit)) THEN "badge-critical"
  ELSE IF AtLeast(percentage, Num(15 * Unit)) THEN "badge-high"
  ELSE IF AtLeast(percentage, Num(5 * Unit)) THEN "badge-elevated"
  ELSE IF AtLeast(percentage, Num(Dec(25, 100))) THEN "badge-low"
  ELSE "badge-verylow"

getAbuseScoreBadgeClass(percentage) ==
  IF percentage.t \in {"null", "undefined"} THEN "badge-info"
  ELSE IF AtLeast(percentage, Num(100 * Unit)) THEN "badge-critical"
  ELSE IF AtLeast(percentage, Num(20 * Unit)) THEN "badge-high"
  ELSE IF AtLeast(percentage, Num(5 * Unit)) THEN "badge-elevated"
  ELSE IF AtLeast(percentage, Num(Dec(25, 100))) THEN "badge-low"
  ELSE "badge-verylow"

getThreatBadgeClass(score) ==
  IF Falsy(score) THEN "badge-info"
  ELSE LET numScore == parseFloat(score) IN
    IF Less(numScore, Num(Dec(1, 1000))) THEN "badge-success"
    ELSE IF Less(numScore, Num(Dec(1, 100))) THEN "badge-info"
    ELSE IF Less(numScore, Num(Dec(1, 10))) THEN "badge-warning"
    ELSE "badge-danger"

\* Variant: the risk-level chain with the high band starting at 15%.
riskLevelFifteen(scorePercentage) ==
  IF AtLeast(scorePercentage, Num(100 * Unit)) THEN "extremely-dangerous"
  ELSE IF AtLeast(scorePercentage, Num(15 * Unit)) THEN "high-risk"
  ELSE IF AtLeast(scorePercentage, Num(5 * Unit)) THEN "slight-risk"
  ELSE IF AtLeast(scorePercentage, Num(Dec(25, 100))) THEN "clean"
  ELSE "extremely-clean"

\* The risk-level text showIpDetailModal picks for a percentage (the page's
\* Chinese labels, one ASCII token each).
riskLevel(scorePercentage) ==
  IF AtLeast(scorePercentage, Num(100 * Unit)) THEN "extremely-dangerous"
  ELSE IF AtLeast(scorePercentage, Num(20 * Unit)) THEN "high-risk"
  ELSE IF AtLeast(scorePercentage, Num(5 * Unit)) THEN "slight-risk"
  ELSE IF AtLeast(scorePercentage, Num(Dec(25, 100))) THEN "clean"
  ELSE "extremely-clean"

\* The detail-lookup response as showIpDetailModal reads it.
DetailData(hasCompany, companyScore, hasAsn, asnScore, flags) ==
  [hasCompany |-> hasCompany, companyScore |-> companyScore,
   hasAsn |-> hasAsn, asnScore |-> asnScore, flags |-> flags]

\* x || Unknown on a score.
ScoreOrUnknown(x) == IF Falsy(x) THEN UnknownStr ELSE x

\* What showIpDetailModal renders: the composite badge and level (riskBadge is
\* "none" when the composite is shown as Unknown), and the per-section threat
\* badges ("none" for a section that is not rendered).
showIpDetailModal(data) ==
  LET companyScore == IF data.hasCompany THEN data.companyScore ELSE Undef
      asnScore == IF data.hasAsn THEN data.asnScore ELSE Undef
      combinedScore == calculateAbuseScore(companyScore, asnScore, data.flags)
      scorePercentage == DMul(combinedScore, 100)
  IN [kind |-> "modal",
      riskBadge |-> IF combinedScore # Null
                      THEN getAbuseScoreBadgeClass(scorePercentage) ELSE "none",
      riskLevel |-> IF combinedScore # Null THEN riskLevel(scorePercentage) ELSE "none",
      companyBadge |-> IF data.hasCompany
                         THEN getThreatBadgeClass(ScoreOrUnknown(data.companyScore))
                         ELSE "none",
      asnBadge |-> IF data.hasAsn
                     THEN getThreatBadgeClass(ScoreOrUnknown(data.asnScore))
                     ELSE "none"]

----------------------------------------------------------------------------
(* Click handlers: fetchAndShowIpDetails and the detail modal *)

MaxRequests == 2      \* detail lookups started in a run

\* Variant: replace('*', '0'), which replaces the first asterisk only.
RECURSIVE ReplaceFirstStar(_)
ReplaceFirstStar(t) ==
  IF t = Empty THEN Empty
  ELSE IF Head(t) = "*" THEN <<"0">> \o Tail(t)
  ELSE <<Head(t)>> \o ReplaceFirstStar(Tail(t))

\* ipText.replace(/\*/g, '0')
RECURSIVE ReplaceStars(_)
ReplaceStars(t) ==
  IF t = Empty THEN Empty
  ELSE <<IF Head(t) = "*" THEN "0" ELSE Head(t)>> \o ReplaceStars(Tail(t))

\* Variant: the handler without its check for a lookup in progress.
existingSpinnerIgnored(l) == FALSE

\* ipElement.querySelector('.loading-spinner')
existingSpinner(l) == spinners[l] > 0

\* A detail lookup in flight: the element clicked, the text it read from the
\* element, the IP put in the URL, and the await it is at ("fetch", "json").
DetailRequest(l, shown, cleanIp) ==
  [el |-> l, shown |-> shown, ip |-> cleanIp, stage |-> "fetch"]

\* The sequence without its k-th element (element.remove()).
RemoveAt(seq, k) == SubSeq(seq, 1, k - 1) \o SubSeq(seq, k + 1, Len(seq))

\* Bodies of the detail endpoint: null, or an object with optional sections.
NullDetail == [kind |-> "null"]
DetailResponses ==
  { NullDetail,
    DetailData(TRUE, Num(Dec(1, 100)), FALSE, Undef, [n \in FlagSet |-> "false"]),
    DetailData(FALSE, Undef, FALSE, Undef,
               [n \in FlagSet |-> IF n = "is_vpn" THEN "true" ELSE "undefined"]) }

\* showIpDetailModal(data) for each object of DetailResponses.
RenderedModal == [d \in DetailResponses \ {NullDetail} |-> showIpDetailModal(d)]

\* A click inside IP element l: the body's click listener finds
\* closest('.ip-text.clickable') and calls fetchAndShowIpDetails, which runs
\* up to its first await.  A click the listener or the early returns ignore
\* changes nothing.
ClickIp(l) ==
  /\ Listening
  /\ issued < MaxRequests
  /\ clickable[l]
  /\ LET text == Trim(ipText[l]) IN
       /\ ~existingSpinner(l)
       /\ text # Loading /\ text # Unknown
       /\ reqs' = Append(reqs, DetailRequest(l, text, ReplaceStars(text)))
  /\ spinners' = [spinners EXCEPT ![l] = @ + 1]
  /\ issued' = issued + 1
  /\ UNCHANGED <<pageVars, modals, toast, copies, fnVars>>

ClickIpElement == \E l \in Lookups : ClickIp(l)

\* The catch block of fetchAndShowIpDetails for the k-th lookup in flight.
DetailFailed(k) ==
  /\ spinners' = [spinners EXCEPT ![reqs[k].el] = @ - 1]
  /\ reqs' = RemoveAt(reqs, k)
  /\ showToast
  /\ UNCHANGED modals

\* await fetch(...) of a detail lookup settles: it rejects, or resolves with a
\* response whose ok is false (the throw) or true.
DetailFetchSettled ==
  /\ \E k \in 1..Len(reqs) :
       /\ reqs[k].stage = "fetch"
       /\ \E outcome \in {"rejected", "not-ok", "ok"} :
            IF outcome = "ok"
              THEN /\ reqs' = [reqs EXCEPT ![k].stage = "json"]
                   /\ UNCHANGED <<spinners, modals, toast>>
              ELSE DetailFailed(k)
  /\ UNCHANGED <<pageVars, issued, copies, fnVars>>

\* await response.json() of a detail lookup settles: it rejects, or yields the
\* data; then the spinner is removed and showIpDetailModal appends a modal
\* to the body (for null it throws on data.company, into the catch block).
DetailJsonSettled ==
  /\ \E k \in 1..Len(reqs) :
       /\ reqs[k].stage = "json"
       /\ \/ DetailFailed(k)
          \/ \E data \in DetailResponses :
               IF data = NullDetail THEN DetailFailed(k)
               ELSE /\ spinners' = [spinners EXCEPT ![reqs[k].el] = @ - 1]
                    /\ reqs' = RemoveAt(reqs, k)
                    /\ modals' = Append(modals, RenderedModal[data])
                    /\ UNCHANGED toast
  /\ UNCHANGED <<pageVars, issued, copies, fnVars>>

\* A click on the close button of the k-th modal.
CloseButtonClick ==
  /\ \E k \in 1..Len(modals) : modals' = RemoveAt(modals, k)
  /\ UNCHANGED <<pageVars, spinners, reqs, issued, toast, copies, fnVars>>

\* A click on the backdrop of the k-th modal (the modal element itself).
BackdropClick ==
  /\ \E k \in 1..Len(modals) : modals' = RemoveAt(modals, k)
  /\ UNCHANGED <<pageVars, spinners, reqs, issued, toast, copies, fnVars>>

\* keydown of Escape: document.querySelector('.ip-detail-modal') is the first
\* modal of the document.
EscapeKey ==
  /\ Listening
  /\ modals # << >>
  /\ modals' = Tail(modals)
  /\ UNCHANGED <<pageVars, spinners, reqs, issued, toast, copies, fnVars>>

\* What a settled card shows: the error rendering, or the fields of a try
\* block that ran to its end.
SettledCard(t) ==
  IF t.threw THEN [ip |-> ErrorText, error |-> TRUE, country |-> Empty, city |-> Empty,
                   status |-> "error"]
  ELSE [ip |-> t.ip, error |-> FALSE, country |-> t.country, city |-> t.city,
        status |-> "success"]

LoadingFields == [ip |-> Loading, country |-> Loading, city |-> Loading]

\* Runs of fetchIpipData: provider last answered with a body its parser
\* accepts after every provider before it failed; last = 0 when all three
\* failed.
IpipRun(last, b) == [last |-> last, body |-> b]
IpipRuns ==
  {IpipRun(0, NullBody(1))} \cup
  UNION {{IpipRun(i, b) : b \in {x \in ProviderBodies(i) :
                                    x.kind # "badjson" /\ ~Parser(i, x).threw}} :
         i \in Providers}

\* The page once loadNetworkInfo has returned with all four lookups done and
\* the IP elements marked.
LoadCompleted ==
  /\ main = "done" /\ hasContainer = TRUE
  /\ pc = [l \in Lookups |-> "done"]
  /\ respOk = TRUE
  /\ \E run \in IpipRuns, e \in EdgeBodies, c \in CfBodies, tw \in TraceTexts \cup {<< >>} :
       LET failed == run.last = 0
           card == [l \in Lookups |->
                      CASE l = "ipip" -> SettledCard(IF failed THEN Thrown
                                                     ELSE Parser(run.last, run.body))
                        [] l = "edgeone" -> SettledCard(EdgeOneTry(e, LoadingFields))
                        [] l = "cf" -> SettledCard(CloudFlareTry(c, LoadingFields))
                        [] l = "twitter" ->
                             SettledCard(IF tw = << >> THEN Thrown ELSE TwitterTry(tw))]
           tried == IF failed THEN NumProviders ELSE run.last
       IN /\ ipText = [l \in Lookups |-> card[l].ip]
          /\ ipError = [l \in Lookups |-> card[l].error]
          /\ country = [l \in Lookups |-> card[l].country]
          /\ city = [l \in Lookups |-> card[l].city]
          /\ status = [l \in Lookups |-> card[l].status]
          /\ idx = tried
          /\ title = IF failed THEN TitleInit ELSE ProviderName(run.last)
          /\ reqCount = [ep \in Endpoints |->
                           IF ep \in {"edgeone", "cf", "twitter"} THEN 1
                           ELSE IF \E i \in 1..tried : ep = ProviderEndpoint(i) THEN 1
                           ELSE 0]
          /\ failRuns = IF failed THEN 1 ELSE 0
          /\ clickable = [l \in Lookups |-> ~Skips(card[l].ip, card[l].error, FALSE)]
          \* a request that never settles is one the load did not make
          /\ hang \in {"none"} \cup {ProviderEndpoint(i) : i \in (tried + 1)..NumProviders}
  /\ got = [i \in Providers |-> NoOutcome(i)]
  /\ markCalls = 1

\* The page once loadNetworkInfo has returned without the cards container.
LoadSkipped ==
  /\ main = "done" /\ hasContainer = FALSE
  /\ hang \in Endpoints \cup {"none"}
  /\ pc = [l \in Lookups |-> "idle"]
  /\ idx = 0
  /\ respOk = TRUE
  /\ ipText = [l \in Lookups |-> Loading]
  /\ ipError = [l \in Lookups |-> FALSE]
  /\ country = [l \in Lookups |-> Loading]
  /\ city = [l \in Lookups |-> Loading]
  /\ status = [l \in Lookups |-> "none"]
  /\ title = TitleInit
  /\ got = [i \in Providers |-> NoOutcome(i)]
  /\ reqCount = [e \in Endpoints |-> 0]
  /\ failRuns = 0
  /\ clickable = [l \in Lookups |-> FALSE]
  /\ markCalls = 0

\* The states in which loadNetworkInfo has returned, before any click on an
\* IP element; the copy buttons may have been clicked during the load.
ClickInit ==
  /\ LoadCompleted \/ LoadSkipped
  /\ spinners = [l \in Lookups |-> 0]
  /\ reqs = << >>
  /\ issued = 0
  /\ modals = << >>
  /\ toast \in BOOLEAN
  /\ copies \in 0..MaxCopies
  /\ fnIn = NoCall /\ fnOut = NoResult

ClickNext ==
  \/ CopyDomainClick
  \/ ClipboardWriteSettled
  \/ ClickIpElement
  \/ DetailFetchSettled
  \/ DetailJsonSettled
  \/ CloseButtonClick
  \/ BackdropClick
  \/ EscapeKey
  \/ ToastExpire

\* The page once loadNetworkInfo has returned, with the user's clicks and key
\* presses.
ClickSpec == ClickInit /\ [][ClickNext]_vars

----------------------------------------------------------------------------
(* Calls of the helpers on bounded inputs *)

MaxMantissa == 2      \* scores are m * 10^e / 10000 with m <= MaxMantissa
Delta == 1            \* sampled distance around each cut point, in 1 / Unit

Decades == {1, 10, 100, 1000, 10000}

\* Scores in [0, 1] with four decimals.
ScoreNumbers ==
  {Dec(m * e, 10000) : m \in 0..MaxMantissa, e \in Decades} \cap 0..Unit
\* Texts starting with a number, as the detail endpoint writes its scores
\* ('0 (Very Low)', '0.0039 (Low)').
ScoreTexts == {NumStr(0), NumStr(Dec(39, 10000))}

\* Scores whose composite is rounded: 0.00005 and 0.3999.
RoundedScores == {1, Dec(3999, 10000)}

ScoreInputs ==
  {Undef, UnknownStr, NonNumeric} \cup ScoreTexts
    \cup {Num(v) : v \in ScoreNumbers \cup RoundedScores}

FlagAssignments == [FlagSet -> FlagValues]

\* The flags objects of the sampled calls: every assignment of true and false
\* to the six flags with any tail of the six missing, and every assignment of
\* true to some of the flags with the others missing.
FlagObjects ==
  {f \in FlagAssignments :
     \/ \A j, k \in 1..Len(FlagNames) :
          (j < k /\ f[FlagNames[j]] = "undefined") => f[FlagNames[k]] = "undefined"
     \/ \A n \in FlagSet : f[n] # "false"}

FlagArguments == FlagObjects \cup {NoArgument}

Around(cuts) == {c + d : c \in cuts, d \in (0 - Delta)..Delta}

PercentageInputs ==
  {Null, Undef} \cup
  {Num(v) : v \in Around({100 * Unit, 20 * Unit, 15 * Unit, 5 * Unit, Dec(25, 100)})
                  \cup {0, Dec(75, 10), 500 * Unit}}

ThreatInputs ==
  {Undef, UnknownStr} \cup ScoreTexts \cup {NumStr(Dec(1, 1000)), NumStr(Dec(5, 10))} \cup
  {Num(v) : v \in Around({Dec(1, 1000), Dec(1, 100), Dec(1, 10)})
                  \cup {0, Dec(5, 10000), Dec(5, 1000), Dec(5, 100), Dec(5, 10), Unit}}

\* Flags of the sampled detail responses: only is_vpn and is_tor vary, or all
\* six are true.
DetailFlags ==
  {f \in FlagAssignments :
     \/ \A n \in DOMAIN f : f[n] = "false" \/ (n \in {"is_vpn", "is_tor"} /\ f[n] = "true")
     \/ \A n \in DOMAIN f : f[n] = "true"}

\* Pairs of scores whose composite falls next to a cut point: 0.0003 with
\* 0.0797, 0.0008 with 0.0192, 0.0001 with 0.3999.
DetailScores ==
  {Undef} \cup ScoreTexts \cup
  {Num(v) : v \in ScoreNumbers \cup RoundedScores
                  \cup {Dec(3, 10000), Dec(797, 10000), Dec(8, 10000), Dec(192, 10000)}}

DetailInputs ==
  {DetailData(hc, IF hc THEN c ELSE Undef, ha, IF ha THEN a ELSE Undef, f) :
     hc \in BOOLEAN, c \in DetailScores, ha \in BOOLEAN, a \in DetailScores,
     f \in DetailFlags}

FnCalls ==
  {[f |-> "calculateAbuseScore", companyScore |-> c, asnScore |-> a, flags |-> fl] :
     c \in ScoreInputs, a \in ScoreInputs, fl \in FlagArguments}
  \cup {[f |-> "getAbuseScoreBadgeClass", percentage |-> q] : q \in PercentageInputs}
  \cup {[f |-> "getThreatBadgeClass", score |-> x] : x \in ThreatInputs}
  \cup {[f |-> "showIpDetailModal", data |-> d] : d \in DetailInputs}

PageIdle ==
  /\ PageInit
  /\ hasContainer = FALSE
  /\ hang = "none"

FnInit == PageIdle /\ fnIn \in FnCalls /\ fnOut = NoResult

CallCalculateAbuseScore ==
  /\ fnIn.f = "calculateAbuseScore" /\ fnOut = NoResult
  /\ fnOut' = [kind |-> "value",
               value |-> calculateAbuseScore(fnIn.companyScore, fnIn.asnScore, fnIn.flags)]
  /\ UNCHANGED <<pageVars, clickVars, fnIn>>

CallGetAbuseScoreBadgeClass ==
  /\ fnIn.f = "getAbuseScoreBadgeClass" /\ fnOut = NoResult
  /\ fnOut' = [kind |-> "class", class |-> getAbuseScoreBadgeClass(fnIn.percentage)]
  /\ UNCHANGED <<pageVars, clickVars, fnIn>>

CallGetThreatBadgeClass ==
  /\ fnIn.f = "getThreatBadgeClass" /\ fnOut = NoResult
  /\ fnOut' = [kind |-> "class", class |-> getThreatBadgeClass(fnIn.score)]
  /\ UNCHANGED <<pageVars, clickVars, fnIn>>

\* showIpDetailModal appends the modal to the body and returns undefined.
CallShowIpDetailModal ==
  /\ fnIn.f = "showIpDetailModal" /\ fnOut = NoResult
  /\ modals' = Append(modals, showIpDetailModal(fnIn.data))
  /\ fnOut' = [kind |-> "value", value |-> Undef]
  /\ UNCHANGED <<pageVars, spinners, reqs, issued, toast, copies, fnIn>>

FnNext ==
  \/ CallCalculateAbuseScore
  \/ CallGetAbuseScoreBadgeClass
  \/ CallGetThreatBadgeClass
  \/ CallShowIpDetailModal

FnSpec == FnInit /\ [][FnNext]_vars

----------------------------------------------------------------------------
(* Properties of the network cards *)

Succeeded(o) == o.kind = "parsed"
Failed(o) == o.kind \in {"neterr", "badjson", "threw"}
Settled(l) == status[l] \in {"success", "error"}

\* Provider i is the first whose attempt succeeded.
FirstSuccess(i) == Succeeded(got[i]) /\ \A j \in 1..(i - 1) : Failed(got[j])

\* C1: when provider i is the first provider of the domestic cascade whose
\* attempt succeeds, the card shows the result its parser returned, the title
\* names provider i, the status is 'success', and no provider after i has been
\* requested.
C1_FirstSuccessWins ==
  \A i \in Providers :
    FirstSuccess(i) =>
      LET r == Parser(i, got[i].body) IN
        /\ ~r.threw
        /\ ipText["ipip"] = r.ip /\ ~ipError["ipip"]
        /\ country["ipip"] = r.country
        /\ city["ipip"] = r.city
        /\ title = ProviderName(i)
        /\ status["ipip"] = "success"
        /\ pc["ipip"] = "done"
        /\ \A j \in (i + 1)..NumProviders :
             reqCount[ProviderEndpoint(j)] = 0 /\ got[j].kind = "none"

C1_Witness ==
  /\ got[1].kind = "neterr"
  /\ got[2].kind = "threw"
  /\ FirstSuccess(3)
  /\ ipText["ipip"] = IpA
  /\ title = ProviderName(3)
  /\ AllSettled

\* The four failure kinds of an attempt; a response with a non-2xx status is a
\* failure whatever its body (one whose body does not parse, or is refused by
\* the parser, is a failure of these kinds already).
FailureKind(o) ==
  \/ o.kind = "neterr"
  \/ o.kind = "parsed" /\ ~o.ok
  \/ o.kind = "badjson"
  \/ o.kind = "threw"

\* Every provider was tried and the attempt on each of them failed.
AllFailed == \A i \in Providers : FailureKind(got[i])

\* C2: when every provider attempt of the domestic cascade fails (by a
\* network error, a non-2xx status, a JSON parse error or a parser failure),
\* the failure path has run exactly once and the card shows the error marker,
\* empty country and city and status 'error', with no value of a provider
\* response; the failure path never runs twice and a finished cascade never
\* leaves the status at 'loading'.
C2_AllFailRendersErrorOnce ==
  /\ failRuns <= 1
  /\ AllFailed =>
       /\ failRuns = 1
       /\ ipText["ipip"] = ErrorText /\ ipError["ipip"]
       /\ country["ipip"] = Empty
       /\ city["ipip"] = Empty
       /\ status["ipip"] = "error"
       /\ title = TitleInit
  /\ pc["ipip"] = "done" => status["ipip"] # "loading"

\* C3: an attempt of the domestic cascade that ends in a network error, a
\* non-2xx status, a JSON parse error or a parser failure is never rendered as
\* a success, the cascade has moved on from it, and no provider is requested
\* twice.
C3_EveryFailureKindAdvances ==
  /\ \A i \in Providers :
       FailureKind(got[i]) =>
         /\ title # ProviderName(i)
         /\ i < NumProviders => reqCount[ProviderEndpoint(i + 1)] = 1
         /\ i = NumProviders => status["ipip"] = "error"
  /\ \A e \in Endpoints : reqCount[e] <= 1

\* C4 (safety part): the four lookups are started together, markIpAsClickable
\* runs at most once, and only when all four cards have settled.
C4_JoinSafety ==
  /\ (\E l \in Lookups : pc[l] # "idle") =>
       /\ \A l \in Lookups : pc[l] # "idle" /\ status[l] # "none"
       /\ \A e \in {ProviderEndpoint(1), "edgeone", "cf", "twitter"} : reqCount[e] = 1
  /\ markCalls <= 1
  /\ markCalls = 1 => \A l \in Lookups : Settled(l)

\* C4: in loadNetworkInfo the four lookups are started before any is awaited,
\* markIpAsClickable is invoked at most once and only after all four settled,
\* and whenever all four have settled (whatever mix of success and failure)
\* it is eventually invoked.
C4_JoinAfterAllSettled ==
  /\ []C4_JoinSafety
  /\ (\A l \in Lookups : Settled(l)) ~> (markCalls = 1)

C4_Witness ==
  /\ markCalls = 1
  /\ status["ipip"] = "error"
  /\ status["edgeone"] = "success"
  /\ status["cf"] = "error"
  /\ status["twitter"] = "success"

\* The endpoints a lookup may request.
LookupEndpoints(l) ==
  IF l = "ipip" THEN {ProviderEndpoint(i) : i \in Providers} ELSE {l}

\* C5: once the lookups are started, every lookup none of whose requests hangs
\* eventually settles, even when a request of another lookup never does (a
\* settled card stays settled, so they are eventually all settled together).
C5_HangStallsOnlyItsLookup ==
  /\ [][\A l \in Lookups : Settled(l) => Settled(l)']_vars
  /\ (main # "init" /\ hasContainer) ~>
       (\A l \in Lookups : hang \notin LookupEndpoints(l) => Settled(l))

C5_Witness ==
  /\ hang = ProviderEndpoint(2)
  /\ pc["ipip"] = "fetch" /\ idx = 2
  /\ status["ipip"] = "loading"
  /\ \A l \in Lookups \ {"ipip"} : Settled(l)

----------------------------------------------------------------------------
(* Properties of the abuse-score helpers *)

Returned(f) == fnIn.f = f /\ fnOut # NoResult

\* The modal the call of showIpDetailModal appended to the body.
Appended == modals[Len(modals)]

\* A score that is absent, the Unknown sentinel or zero (the number, or a text
\* whose leading number is zero).
NoScore(x) == x \in {Undef, UnknownStr, Num(0), NumStr(0)}

\* A score that is absent, the Unknown sentinel, a text that does not start
\* with a number, or zero.
NoNumber(x) == NoScore(x) \/ x = NonNumeric

\* The number a score counts as (absent and Unknown count as 0).
ScoreValue(x) == IF x.t \in {"number", "numstr"} THEN x.v ELSE 0

TrueFlags(flags) == {n \in DOMAIN flags : flags[n] = "true"}

NoInformation ==
  /\ NoScore(fnIn.companyScore)
  /\ NoScore(fnIn.asnScore)
  /\ TrueFlags(fnIn.flags) = {}

\* C6 as stated: calculateAbuseScore returns null exactly when both scores are
\* absent, Unknown or zero and no flag is true; in every other case it returns
\* a number that is not zero.
C6_Original ==
  Returned("calculateAbuseScore") =>
    /\ (fnOut.value = Null) <=> NoInformation
    /\ ~NoInformation => fnOut.value.t = "double" /\ fnOut.value # Zero

NoNumericInformation ==
  /\ NoNumber(fnIn.companyScore)
  /\ NoNumber(fnIn.asnScore)
  /\ TrueFlags(fnIn.flags) = {}

\* C6 (amended): calculateAbuseScore returns null exactly when each of the two
\* scores is absent, Unknown, a text that does not start with a number, or
\* zero, and no flag is true; in every other case it returns a number that
\* is not zero.
C6_NullIffNoInformation ==
  Returned("calculateAbuseScore") =>
    /\ (fnOut.value = Null) <=> NoNumericInformation
    /\ ~NoNumericInformation => fnOut.value.t = "double" /\ fnOut.value # Zero

C6_Witness ==
  /\ Returned("calculateAbuseScore")
  /\ fnIn.companyScore = NonNumeric
  /\ fnIn.asnScore = Num(0)
  /\ TrueFlags(fnIn.flags) = {}
  /\ \E n \in DOMAIN fnIn.flags : fnIn.flags[n] = "undefined"
  /\ fnOut.value = Null

\* The decimal ((c + a) / 2) * 5 + k * 0.15 of a call, in units of 1 / (2 * Unit).
ExactComposite ==
  5 * (ScoreValue(fnIn.companyScore) + ScoreValue(fnIn.asnScore))
    + 2 * Cardinality(TrueFlags(fnIn.flags)) * Dec(15, 100)

\* C7: a non-null result of calculateAbuseScore equals ((c + a) / 2) * 5 + k * 0.15
\* for scores c and a (absent or Unknown counting as 0) and k true flags: it
\* is the number that this decimal denotes (0.45 for no score and three
\* flags, 1 for 0.02, 0.02 and six flags).
C7_CompositeFormula ==
  (Returned("calculateAbuseScore") /\ fnOut.value # Null) =>
    fnOut.value = Double(ExactComposite, 2 * Unit)

\* The severity bucket of a percentage, by its bounds.
Bucket(v) ==
  CASE v >= 100 * Unit -> "badge-critical"
    [] 20 * Unit <= v /\ v < 100 * Unit -> "badge-high"
    [] 5 * Unit <= v /\ v < 20 * Unit -> "badge-elevated"
    [] Dec(25, 100) <= v /\ v < 5 * Unit -> "badge-low"
    [] v < Dec(25, 100) -> "badge-verylow"

OneFlagNoScore ==
  /\ Returned("calculateAbuseScore")
  /\ fnIn.companyScore = Num(0)
  /\ fnIn.asnScore = Num(0)
  /\ Cardinality(TrueFlags(fnIn.flags)) = 1

\* C8: getAbuseScoreBadgeClass maps a percentage p to critical for p >= 100,
\* high for 20 <= p < 100, elevated for 5 <= p < 20, low for 0.25 <= p < 5 and
\* very low below 0.25; a zero score with exactly one true flag, 15%, is
\* elevated.
C8_SeverityBuckets ==
  /\ (Returned("getAbuseScoreBadgeClass") /\ fnIn.percentage.t = "number") =>
       fnOut.class = Bucket(fnIn.percentage.v)
  /\ OneFlagNoScore =>
       /\ DMul(fnOut.value, 100) = ToDouble(Num(15 * Unit))
       /\ getAbuseScoreBadgeClass(DMul(fnOut.value, 100)) = "badge-elevated"

C8_Witness ==
  /\ Returned("getAbuseScoreBadgeClass")
  /\ fnIn.percentage = Num(20 * Unit)
  /\ fnOut.class = "badge-high"

\* The class of a numeric per-source score, by the bounds of the statement.
ThreatClass(v) ==
  CASE v < Dec(1, 1000) -> "badge-success"
    [] Dec(1, 1000) <= v /\ v < Dec(1, 100) -> "badge-info"
    [] Dec(1, 100) <= v /\ v < Dec(1, 10) -> "badge-warning"
    [] v >= Dec(1, 10) -> "badge-danger"

\* C9: getThreatBadgeClass classes every numeric score s as success below
\* 0.001, info below 0.01, warning below 0.1 and danger from 0.1 on, and an
\* absent score as info; every input gets one of these four classes.
C9_ThreatClasses ==
  Returned("getThreatBadgeClass") =>
    /\ fnIn.score.t \in {"number", "numstr"} => fnOut.class = ThreatClass(fnIn.score.v)
    /\ fnIn.score = Undef => fnOut.class = "badge-info"
    /\ fnOut.class \in {"badge-success", "badge-info", "badge-warning", "badge-danger"}

\* C10: in the detail modal, a company or ASN section that is present with an
\* absent (missing or zero) abuser score carries the threat badge 'info'.
C10_AbsentSectionScoreIsInfo ==
  Returned("showIpDetailModal") =>
    /\ (fnIn.data.hasCompany /\ Falsy(fnIn.data.companyScore)) =>
         Appended.companyBadge = "badge-info"
    /\ (fnIn.data.hasAsn /\ Falsy(fnIn.data.asnScore)) =>
         Appended.asnBadge = "badge-info"

\* The flags object with every flag that is not true set to false.
ExplicitFlags(flags) == [n \in FlagSet |-> IF flags[n] = "true" THEN "true" ELSE "false"]

\* C11: calculateAbuseScore never raises: its outcome is a number or null, and
\* it is the outcome for the same call with every absent, Unknown or
\* non-numeric score replaced by 0, every flag that is not true replaced by
\* false, and an absent flags argument replaced by the empty object.
C11_NeverRaises ==
  Returned("calculateAbuseScore") =>
    /\ fnOut.value.t \in {"double", "null"}
    /\ fnOut.value # TypeError
    /\ fnOut.value = calculateAbuseScore(Num(ScoreValue(fnIn.companyScore)),
                                         Num(ScoreValue(fnIn.asnScore)),
                                         ExplicitFlags(fnIn.flags))
    /\ (fnIn.flags = NoArgument) =>
         fnOut.value = calculateAbuseScore(fnIn.companyScore, fnIn.asnScore, EmptyObject)

C11_Witness ==
  /\ Returned("calculateAbuseScore")
  /\ fnIn.companyScore = NonNumeric
  /\ fnIn.asnScore = Num(Dec(2, 100))
  /\ fnIn.flags = NoArgument
  /\ fnOut.value = ToDouble(Num(Dec(5, 100)))

----------------------------------------------------------------------------
(* Properties of the click handlers *)

\* C12: the IP submitted to the detail endpoint is the text the clicked
\* element displays (as the handler reads it, trimmed) with every '*' replaced
\* by '0' and every other character unchanged; it contains no '*', and
\* sanitizing it again leaves it unchanged.
C12_SanitizedIp ==
  \A k \in 1..Len(reqs) :
    LET r == reqs[k] IN
      /\ r.shown = Trim(ipText[r.el])
      /\ Len(r.ip) = Len(r.shown)
      /\ \A j \in 1..Len(r.shown) :
           r.ip[j] = IF r.shown[j] = "*" THEN "0" ELSE r.shown[j]
      /\ \A j \in 1..Len(r.ip) : r.ip[j] # "*"
      /\ ReplaceStars(r.ip) = r.ip

C12_Witness ==
  \E k \in 1..Len(reqs) :
    /\ reqs[k].shown = <<"1", ".", "*", ".", "*">>
    /\ reqs[k].ip = <<"1", ".", "0", ".", "0">>

\* C13: at most one IP detail modal exists on the page at any time, after any
\* sequence of clicks on clickable IP elements, completions of detail
\* lookups, clicks on a close button or a backdrop, and Escape key presses.
C13_AtMostOneModal == Len(modals) <= 1

----------------------------------------------------------------------------
(* Further properties of the network cards *)

\* A JSON value of malformed or unexpected shape for provider i: null, an
\* object carrying a status that is not ok, or an object with none of the
\* expected ip, country and city members.
StatusNotOk(i, b) ==
  CASE i = 1 -> b.code # 0
    [] i = 2 -> FALSE
    [] i = 3 -> b.ret # "ok"

LacksFields(i, b) ==
  CASE i = 1 -> ~b.hasData \/ b.data = NoPayload
    [] i = 2 -> b.data = NoPayload
    [] i = 3 -> ~b.hasData \/ (b.ip = Empty /\ (~b.hasLocation \/ b.location = << >>))

Malformed(i, b) == b.kind = "null" \/ StatusNotOk(i, b) \/ LacksFields(i, b)

\* C14: for each of the three domestic providers, a JSON response of
\* malformed or unexpected shape (delivered with a 2xx status) is a failure
\* of the attempt: the parser never returns a result for it, so it is never
\* rendered as a success.
C14_MalformedNeverRendered ==
  \A i \in Providers :
    (Succeeded(got[i]) /\ got[i].ok) => ~Malformed(i, got[i].body)

\* The fields and the status indicator of card l.
Card(l) == <<ipText[l], ipError[l], country[l], city[l], status[l]>>

\* The step is one of lookup l: it moves its position.
Stepped(l) == pc'[l] # pc[l] \/ (l = "ipip" /\ idx' # idx)

\* C15: under every interleaving of the four lookups' responses, a field or
\* the status of a card changes only in a step of that card's own lookup, and
\* a step after the start is a step of one lookup only; so no step of one
\* lookup changes a field or status of another card.
C15_OwnCardOnly ==
  [][/\ \A l \in Lookups : Card(l)' # Card(l) => Stepped(l)
     /\ title' # title => Stepped("ipip")
     /\ main = "waiting" => Cardinality({l \in Lookups : Stepped(l)}) <= 1]_vars

C15_Witness ==
  /\ status["cf"] = "success" /\ ipText["cf"] = IpB
  /\ status["twitter"] = "error"
  /\ Card("edgeone") = <<Loading, FALSE, Loading, Loading, "loading">>
  /\ pc["ipip"] = "body" /\ idx = 2
  /\ Card("ipip") = <<Loading, FALSE, Loading, Loading, "loading">>

SingleLookups == {"edgeone", "cf", "twitter"}

\* The fields a single-provider lookup shows after a try block that ran to
\* its end on some response.
CompletedTries(l) ==
  LET tries == CASE l = "edgeone" -> {EdgeOneTry(b, LoadingFields) : b \in EdgeBodies}
                 [] l = "cf" -> {CloudFlareTry(b, LoadingFields) : b \in CfBodies}
                 [] l = "twitter" -> {TwitterTry(text) : text \in TraceTexts}
  IN {[ip |-> t.ip, country |-> t.country, city |-> t.city] : t \in {x \in tries : ~x.threw}}

ErrorRendering(l) ==
  /\ ipError[l] /\ ipText[l] = ErrorText
  /\ country[l] = Empty /\ city[l] = Empty

----------------------------------------------------------------------------
(* Further properties of the click handlers *)

\* Number of detail lookups in flight that were started from element l.
PendingFor(l) == Cardinality({k \in 1..Len(reqs) : reqs[k].el = l})

\* C17: for any single IP element at most one detail lookup is in flight, and
\* its busy spinner is present exactly while one is; a step taken while the
\* spinner is present starts no further lookup for the element; a lookup in
\* flight ends only by settling, with a new modal (success) or with the toast
\* (failure), and its spinner is gone then; after that a click starts a new
\* lookup.
C17_OneLookupPerElement ==
  /\ [](\A l \in Lookups :
          /\ PendingFor(l) <= 1
          /\ spinners[l] = PendingFor(l))
  /\ [][/\ \A l \in Lookups : spinners[l] > 0 => PendingFor(l)' <= PendingFor(l)
        /\ Len(reqs') < Len(reqs) =>
             /\ Len(reqs') = Len(reqs) - 1
             /\ \/ Len(modals') = Len(modals) + 1 /\ toast' = toast
                \/ modals' = modals /\ toast']_vars

C17_Witness ==
  \E l \in Lookups :
    /\ \A m \in Lookups : clickable[m] <=> m = l
    /\ issued = MaxRequests
    /\ Len(modals) = 1
    /\ PendingFor(l) = 1 /\ spinners[l] = 1

----------------------------------------------------------------------------
(* Further properties of the abuse-score helpers *)

\* The severity buckets: badge class and risk-level text.
SeverityPairs ==
  { <<"badge-critical", "extremely-dangerous">>,
    <<"badge-high", "high-risk">>,
    <<"badge-elevated", "slight-risk">>,
    <<"badge-low", "clean">>,
    <<"badge-verylow", "extremely-clean">> }

\* C18: in the detail modal, the badge class from getAbuseScoreBadgeClass and
\* the risk-level text chosen in showIpDetailModal denote the same severity
\* bucket for every composite score that is not null, and the two threshold
\* chains agree on every percentage.
C18_BadgeMatchesLevel ==
  /\ Returned("showIpDetailModal") =>
       /\ Len(modals) = 1
       /\ \/ Appended.riskBadge = "none" /\ Appended.riskLevel = "none"
          \/ <<Appended.riskBadge, Appended.riskLevel>> \in SeverityPairs
  /\ (Returned("getAbuseScoreBadgeClass") /\ fnIn.percentage.t = "number") =>
       <<fnOut.class, riskLevel(fnIn.percentage)>> \in SeverityPairs

C18_Witness ==
  /\ Returned("showIpDetailModal")
  /\ fnIn.data.hasCompany /\ fnIn.data.companyScore = Num(Dec(1, 100))
  /\ ~fnIn.data.hasAsn
  /\ TrueFlags(fnIn.data.flags) = {"is_vpn"}
  /\ Appended.riskBadge = "badge-elevated"
  /\ Appended.riskLevel = "slight-risk"

----------------------------------------------------------------------------
(* Clickable IP elements *)

\* The IP element of card l shows the error marker, the loading placeholder
\* or the Unknown sentinel.
ShowsNoIp(l) == ipError[l] \/ Trim(ipText[l]) = Loading \/ Trim(ipText[l]) = Unknown

\* C19: whatever the four lookups ended with, after the join an IP element is
\* clickable only if it shows neither the error marker, the loading
\* placeholder nor the Unknown sentinel; a card whose lookup ended in failure
\* or whose provider returned no IP is never clickable and no detail lookup
\* is ever started from it.
C19_ClickableOnlyWithIp ==
  \A l \in Lookups :
    /\ clickable[l] => ~ShowsNoIp(l)
    /\ (ShowsNoIp(l) \/ status[l] = "error") => (~clickable[l] /\ PendingFor(l) = 0)
    /\ main = "done" => (clickable[l] <=> ~ShowsNoIp(l))

C19_Witness ==
  /\ main = "done"
  /\ status["ipip"] = "error" /\ ipError["ipip"] /\ ~clickable["ipip"]
  /\ status["cf"] = "success" /\ ipText["cf"] = Unknown /\ ~clickable["cf"]
  /\ clickable["edgeone"] /\ PendingFor("edgeone") = 1
  /\ issued = MaxRequests

====
